---- MODULE Spec2Model ----
(***************************************************************************)
(* Execution-control layer of example.py (agentsh + Daytona demo):         *)
(* main() checks the credential, creates a sandbox, polls it for           *)
(* readiness under a 5 second SIGALRM deadline, runs the static scenario   *)
(* list through test() under a 30 second deadline, and deletes the         *)
(* sandbox in a finally block.                                             *)
(*                                                                         *)
(* The program is one thread; pc is the statement main() is about to       *)
(* execute.  SIGALRM is asynchronous: while the alarm is armed the handler *)
(* may run at any statement boundary and inside any blocking call, which   *)
(* is the action Fire.                                                     *)
(***************************************************************************)
EXTENDS Integers, Sequences, FiniteSets, TLC

(* ------------------------------ bounds -------------------------------- *)
\* The static list holds 52 scenarios (lines 118-319), all of them run by
\* the same test(); the model runs the first NumScenarios of them.
NumScenarios == 3
\* Exit codes a remote exec may report: 0..MaxExitCode.
MaxExitCode == 1
\* Captured outputs tried on the formatting of test(): up to MaxPad
\* whitespace characters, then up to MaxBody characters of text, then up to
\* MaxPad whitespace characters.
MaxPad == 2
MaxBody == 152

(* ------------------------- program constants -------------------------- *)
max_retries == 10
ProbeTimeout == 5
TestTimeout == 30
Sentinel == 0 - 1
\* A name that is not bound yet (result, the value test() hands back).
Unset == 0 - 2

ExitCodes == 0 .. MaxExitCode
\* DAYTONA_API_KEY in the environment: not set, set to "", set to a key.
ApiKeys == {"absent", "empty", "present"}
\* The handle daytona.create returns, and the one daytona.get returns on
\* attempt a (each get builds a new handle object).
CreatedHandle == 1
RefreshedHandle(a) == a + 1

(* --------------------------- output of test() ------------------------- *)
\* Text is a sequence of characters.  result.result may also be None; the
\* same value stands for result.result before an exec has returned.
None == <<"None">>
\* Characters str.strip() removes.
Whitespace == {" ", "\n"}
\* The placeholder "(no output)" of line 97 and the marker "..." of line 100.
Placeholder == <<"(", "n", "o", " ", "o", "u", "t", "p", "u", "t", ")">>
Ellipsis == <<".", ".", ".">>
\* The display maximum of lines 99-100.
MaxDisplay == 150

\* Python truthiness of result.result: None and "" are falsy.
Truthy(r) == r # None /\ r # <<>>

\* str.strip(): drop the leading and the trailing whitespace.
RECURSIVE LStrip(_)
LStrip(t) ==
    IF t # <<>> /\ Head(t) \in Whitespace THEN LStrip(Tail(t)) ELSE t
RECURSIVE RStrip(_)
RStrip(t) ==
    IF t # <<>> /\ t[Len(t)] \in Whitespace
    THEN RStrip(SubSeq(t, 1, Len(t) - 1))
    ELSE t
Strip(t) == RStrip(LStrip(t))

\* output = result.result.strip() if result.result else "(no output)"
Normalize(r) == IF Truthy(r) THEN Strip(r) ELSE Placeholder

\* Variant: the comparison is >=, so an output of exactly 150 characters
\* is cut as well.
Truncate_AtOrAbove(o) ==
    IF Len(o) >= MaxDisplay THEN SubSeq(o, 1, MaxDisplay) \o Ellipsis ELSE o

\* if len(output) > 150: output = output[:150] + "..."
Truncate(o) ==
    IF Len(o) > MaxDisplay THEN SubSeq(o, 1, MaxDisplay) \o Ellipsis ELSE o

\* The text printed after "Output: " for result.result = r.
Display(r) == Truncate(Normalize(r))

\* Outputs the exec of a scenario returns in a full run: None, "", " " and
\* " ok\n".
MainOutputs == {None, <<>>, <<" ">>, <<" ", "o", "k", "\n">>}

VARIABLES
    pc,               \* statement main() is at
    apiKey,           \* os.environ.get("DAYTONA_API_KEY")
    exitStatus,       \* sys.exit status, Unset while running
    exc,              \* exception propagating out of a try statement
    sandbox,          \* the local variable sandbox (0: not bound)
    handlerInstalled, \* signal.signal(SIGALRM, timeout_handler) was called
    alarm,            \* seconds the pending alarm was set to, 0: not armed
    attempt,          \* i + 1 of the readiness loop, 0 before the loop
    sandbox_ready,    \* the local variable sandbox_ready
    result,           \* result.exit_code of the last exec that returned
    pending,          \* the exec in flight: "none", "completes", "blocks"
    idx,              \* position in the scenario list, 0 before it
    testRet,          \* value the current test() call returned
    execRet,          \* exit code the exec of the current test() returned
    out,              \* the last line printed
    warned,           \* the not-ready warning of line 85 was printed
    probeZero,        \* some probe exec returned with exit code 0
    createCalls,      \* daytona.create calls made
    getCalls,         \* daytona.get calls made
    probes,           \* probe execs submitted
    submitted,        \* scenario indexes submitted to exec, in order
    deleteCalls,      \* daytona.delete calls made
    abandoned,        \* what the exec cut short by the last alarm was doing
    raw,              \* result.result of the exec of the current test()
    display,          \* the text test() printed after "Output: "
    used,             \* handles passed to a scenario exec or to delete
    lastGetOk,        \* attempt of the last daytona.get that returned
    sleeps            \* time.sleep calls made

vars == <<pc, apiKey, exitStatus, exc, sandbox, handlerInstalled, alarm,
          attempt, sandbox_ready, result, pending, idx, testRet, execRet,
          out, warned, probeZero, createCalls, getCalls, probes, submitted,
          deleteCalls, abandoned, raw, display, used, lastGetOk, sleeps>>

\* Statements inside the try body of the readiness loop (lines 66-74).
ProbeTryBody == {"get", "probe_arm", "probe_call", "probe_inflight",
                 "probe_disarm", "probe_check"}
\* Statements inside the try body of test() (lines 94-103).
TestTryBody == {"test_arm", "test_call", "test_inflight", "test_disarm",
                "test_report"}
\* Statements inside the try of main() (lines 88-378) that are not inside
\* the try body of test(): its except clauses, its prints, the list itself.
MainTryBody == {"test_begin", "test_timeout", "test_except", "test_next",
                "summary"}

\* Where control lands when exception e is raised at statement p: the
\* matching except clause of the innermost enclosing try body, the finally
\* clause of main(), or out of main().  An exception raised inside an
\* except clause is not caught by the clauses of the same try statement.
Catch(p, e) ==
    IF p \in ProbeTryBody
    THEN (IF e = "TimeoutError" THEN "probe_timeout" ELSE "probe_except")
    ELSE IF p \in TestTryBody
    THEN (IF e = "TimeoutError" THEN "test_timeout" ELSE "test_except")
    ELSE IF p \in MainTryBody THEN "finally"
    ELSE "raised"

\* raise e at the current statement.
Raise(e) ==
    /\ pc' = Catch(pc, e)
    /\ exc' = IF Catch(pc, e) \in {"finally", "raised"} THEN e ELSE exc

Init ==
    /\ pc = "start"
    /\ apiKey \in ApiKeys
    /\ exitStatus = Unset
    /\ exc = "none"
    /\ sandbox = 0
    /\ handlerInstalled = FALSE
    /\ alarm = 0
    /\ attempt = 0
    /\ sandbox_ready = FALSE
    /\ result = Unset
    /\ pending = "none"
    /\ idx = 0
    /\ testRet = Unset
    /\ execRet = Unset
    /\ out = "none"
    /\ warned = FALSE
    /\ probeZero = FALSE
    /\ createCalls = 0
    /\ getCalls = 0
    /\ probes = 0
    /\ submitted = <<>>
    /\ deleteCalls = 0
    /\ abandoned = "none"
    /\ raw = None
    /\ display = <<>>
    /\ used = {}
    /\ lastGetOk = 0
    /\ sleeps = 0

(* ----------------------- credential and create ------------------------ *)
\* Variant: the check tests for None only, so an empty key passes.
KeyMissing_NoneOnly(k) == k = "absent"

\* not os.environ.get("DAYTONA_API_KEY"): None and "" are both falsy.
KeyMissing(k) == k \in {"absent", "empty"}

CheckApiKey ==
    /\ pc = "start"
    /\ IF KeyMissing(apiKey)
       THEN /\ out' = "key_error"
            /\ exitStatus' = 1
            /\ pc' = "exited"
       ELSE /\ pc' = "create"
            /\ UNCHANGED <<out, exitStatus>>
    /\ UNCHANGED <<apiKey, exc, sandbox, handlerInstalled, alarm, attempt,
                   sandbox_ready, result, pending, idx, testRet, execRet,
                   warned, probeZero, createCalls, getCalls, probes,
                   submitted, deleteCalls, abandoned, raw, display, used,
                   lastGetOk, sleeps>>

\* sandbox = daytona.create(params=params, timeout=120): returns a handle
\* or raises; it is outside every try statement.
Create ==
    /\ pc = "create"
    /\ createCalls' = createCalls + 1
    /\ \/ /\ sandbox' = CreatedHandle
          /\ pc' = "install"
          /\ UNCHANGED exc
       \/ /\ Raise("Error")
          /\ UNCHANGED sandbox
    /\ UNCHANGED <<apiKey, exitStatus, handlerInstalled, alarm, attempt,
                   sandbox_ready, result, pending, idx, testRet, execRet,
                   out, warned, probeZero, getCalls, probes, submitted,
                   deleteCalls, abandoned, raw, display, used, lastGetOk,
                   sleeps>>

\* signal.signal(signal.SIGALRM, timeout_handler); sandbox_ready = False
InstallHandler ==
    /\ pc = "install"
    /\ handlerInstalled' = TRUE
    /\ sandbox_ready' = FALSE
    /\ pc' = "loop"
    /\ UNCHANGED <<apiKey, exitStatus, exc, sandbox, alarm, attempt, result,
                   pending, idx, testRet, execRet, out, warned, probeZero,
                   createCalls, getCalls, probes, submitted, deleteCalls,
                   abandoned, raw, display, used, lastGetOk, sleeps>>

(* --------------------------- readiness loop --------------------------- *)
\* for i in range(max_retries): the next attempt, or the loop is exhausted.
LoopHead ==
    /\ pc = "loop"
    /\ IF attempt < max_retries
       THEN /\ attempt' = attempt + 1
            /\ pc' = "sleep"
       ELSE /\ pc' = "check_ready"
            /\ UNCHANGED attempt
    /\ UNCHANGED <<apiKey, exitStatus, exc, sandbox, handlerInstalled,
                   alarm, sandbox_ready, result, pending, idx, testRet,
                   execRet, out, warned, probeZero, createCalls, getCalls,
                   probes, submitted, deleteCalls, abandoned, raw, display,
                   used, lastGetOk, sleeps>>

\* time.sleep(retry_interval), outside the try statement.
Sleep ==
    /\ pc = "sleep"
    /\ pc' = "get"
    /\ sleeps' = sleeps + 1
    /\ abandoned' = "none"
    /\ UNCHANGED <<apiKey, exitStatus, exc, sandbox, handlerInstalled,
                   alarm, attempt, sandbox_ready, result, pending, idx,
                   testRet, execRet, out, warned, probeZero, createCalls,
                   getCalls, probes, submitted, deleteCalls, raw, display,
                   used, lastGetOk>>

\* Variant: a daytona.get that raises leaves sandbox unbound.
Get_ClearsOnFailure ==
    /\ pc = "get"
    /\ getCalls' = getCalls + 1
    /\ \/ /\ sandbox' = RefreshedHandle(attempt)
          /\ lastGetOk' = attempt
          /\ pc' = "probe_arm"
          /\ UNCHANGED exc
       \/ /\ Raise("Error")
          /\ sandbox' = 0
          /\ UNCHANGED lastGetOk
    /\ UNCHANGED <<apiKey, exitStatus, handlerInstalled, alarm, attempt,
                   sandbox_ready, result, pending, idx, testRet, execRet,
                   out, warned, probeZero, createCalls, probes, submitted,
                   deleteCalls, abandoned, raw, display, used, sleeps>>

\* sandbox = daytona.get(sandbox.id): rebinds sandbox, or raises and leaves
\* it as it was.
Get ==
    /\ pc = "get"
    /\ getCalls' = getCalls + 1
    /\ \/ /\ sandbox' = RefreshedHandle(attempt)
          /\ lastGetOk' = attempt
          /\ pc' = "probe_arm"
          /\ UNCHANGED exc
       \/ /\ Raise("Error")
          /\ UNCHANGED <<sandbox, lastGetOk>>
    /\ UNCHANGED <<apiKey, exitStatus, handlerInstalled, alarm, attempt,
                   sandbox_ready, result, pending, idx, testRet, execRet,
                   out, warned, probeZero, createCalls, probes, submitted,
                   deleteCalls, abandoned, raw, display, used, sleeps>>

\* signal.alarm(5)
ProbeArm ==
    /\ pc = "probe_arm"
    /\ alarm' = ProbeTimeout
    /\ pc' = "probe_call"
    /\ UNCHANGED <<apiKey, exitStatus, exc, sandbox, handlerInstalled,
                   attempt, sandbox_ready, result, pending, idx, testRet,
                   execRet, out, warned, probeZero, createCalls, getCalls,
                   probes, submitted, deleteCalls, abandoned, raw, display,
                   used, lastGetOk, sleeps>>

\* sandbox.process.exec("echo ready", timeout=5) is called: the command is
\* submitted and either completes (returns or raises) or blocks.
ProbeSubmit ==
    /\ pc = "probe_call"
    /\ probes' = probes + 1
    /\ pending' \in {"completes", "blocks"}
    /\ pc' = "probe_inflight"
    /\ UNCHANGED <<apiKey, exitStatus, exc, sandbox, handlerInstalled,
                   alarm, attempt, sandbox_ready, result, idx, testRet,
                   execRet, out, warned, probeZero, createCalls, getCalls,
                   submitted, deleteCalls, abandoned, raw, display, used,
                   lastGetOk, sleeps>>

\* The probe exec returns a result with exit code c, or raises.
ProbeComplete ==
    /\ pc = "probe_inflight"
    /\ pending = "completes"
    /\ pending' = "none"
    /\ \/ \E c \in ExitCodes :
            /\ result' = c
            /\ probeZero' = (probeZero \/ c = 0)
            /\ pc' = "probe_disarm"
            /\ UNCHANGED exc
       \/ /\ Raise("Error")
          /\ UNCHANGED <<result, probeZero>>
    /\ UNCHANGED <<apiKey, exitStatus, sandbox, handlerInstalled, alarm,
                   attempt, sandbox_ready, idx, testRet, execRet, out,
                   warned, createCalls, getCalls, probes, submitted,
                   deleteCalls, abandoned, raw, display, used, lastGetOk,
                   sleeps>>

\* signal.alarm(0) of line 70
ProbeDisarm ==
    /\ pc = "probe_disarm"
    /\ alarm' = 0
    /\ pc' = "probe_check"
    /\ UNCHANGED <<apiKey, exitStatus, exc, sandbox, handlerInstalled,
                   attempt, sandbox_ready, result, pending, idx, testRet,
                   execRet, out, warned, probeZero, createCalls, getCalls,
                   probes, submitted, deleteCalls, abandoned, raw, display,
                   used, lastGetOk, sleeps>>

\* Variant: the break is outside the if, so any probe that returns ends
\* the loop.
ProbeCheck_BreakAlways ==
    /\ pc = "probe_check"
    /\ IF result = 0
       THEN /\ out' = "ready"
            /\ sandbox_ready' = TRUE
            /\ pc' = "check_ready"
       ELSE /\ pc' = "check_ready"
            /\ UNCHANGED <<out, sandbox_ready>>
    /\ UNCHANGED <<apiKey, exitStatus, exc, sandbox, handlerInstalled,
                   alarm, attempt, result, pending, idx, testRet, execRet,
                   warned, probeZero, createCalls, getCalls, probes,
                   submitted, deleteCalls, abandoned, raw, display, used,
                   lastGetOk, sleeps>>

\* if result.exit_code == 0: print, sandbox_ready = True, break
ProbeCheck ==
    /\ pc = "probe_check"
    /\ IF result = 0
       THEN /\ out' = "ready"
            /\ sandbox_ready' = TRUE
            /\ pc' = "check_ready"
       ELSE /\ pc' = "loop"
            /\ UNCHANGED <<out, sandbox_ready>>
    /\ UNCHANGED <<apiKey, exitStatus, exc, sandbox, handlerInstalled,
                   alarm, attempt, result, pending, idx, testRet, execRet,
                   warned, probeZero, createCalls, getCalls, probes,
                   submitted, deleteCalls, abandoned, raw, display, used,
                   lastGetOk, sleeps>>

\* except TimeoutError: signal.alarm(0); print("Waiting...")
ProbeTimeoutHandler ==
    /\ pc = "probe_timeout"
    /\ alarm' = 0
    /\ out' = "waiting"
    /\ pc' = "loop"
    /\ UNCHANGED <<apiKey, exitStatus, exc, sandbox, handlerInstalled,
                   attempt, sandbox_ready, result, pending, idx, testRet,
                   execRet, warned, probeZero, createCalls, getCalls,
                   probes, submitted, deleteCalls, abandoned, raw, display,
                   used, lastGetOk, sleeps>>

\* Variant: the except Exception clause of the readiness loop omits
\* signal.alarm(0).
ProbeErrorHandler_NoDisarm ==
    /\ pc = "probe_except"
    /\ alarm' = alarm
    /\ out' = "error"
    /\ pc' = "loop"
    /\ UNCHANGED <<apiKey, exitStatus, exc, sandbox, handlerInstalled,
                   attempt, sandbox_ready, result, pending, idx, testRet,
                   execRet, warned, probeZero, createCalls, getCalls,
                   probes, submitted, deleteCalls, abandoned, raw, display,
                   used, lastGetOk, sleeps>>

\* except Exception as e: signal.alarm(0); print("Error: ... - retrying...")
ProbeErrorHandler ==
    /\ pc = "probe_except"
    /\ alarm' = 0
    /\ out' = "error"
    /\ pc' = "loop"
    /\ UNCHANGED <<apiKey, exitStatus, exc, sandbox, handlerInstalled,
                   attempt, sandbox_ready, result, pending, idx, testRet,
                   execRet, warned, probeZero, createCalls, getCalls,
                   probes, submitted, deleteCalls, abandoned, raw, display,
                   used, lastGetOk, sleeps>>

(* ------------------------------ SIGALRM ------------------------------- *)
\* Variant: the handler returns without raising.
timeout_handler_returns == UNCHANGED <<pc, exc>>

\* def timeout_handler(signum, frame): raise TimeoutError
timeout_handler == Raise("TimeoutError")

\* The armed alarm expires and the installed handler runs at the statement
\* main() is at; an exec in flight is abandoned.  The alarm is single-shot.
Fire ==
    /\ handlerInstalled
    /\ alarm > 0
    /\ alarm' = 0
    /\ pending' = "none"
    /\ timeout_handler
    /\ abandoned' = pending
    /\ UNCHANGED <<apiKey, exitStatus, sandbox, handlerInstalled, attempt,
                   sandbox_ready, result, idx, testRet, execRet, out,
                   warned, probeZero, createCalls, getCalls, probes,
                   submitted, deleteCalls, raw, display, used, lastGetOk,
                   sleeps>>

(* --------------------------- scenario runner -------------------------- *)
\* if not sandbox_ready: print warning; then main() enters its try
\* statement and reaches the first test() call.
CheckReady ==
    /\ pc = "check_ready"
    /\ IF ~sandbox_ready
       THEN /\ warned' = TRUE
            /\ out' = "warning"
       ELSE UNCHANGED <<warned, out>>
    /\ idx' = 1
    /\ pc' = "test_begin"
    /\ UNCHANGED <<apiKey, exitStatus, exc, sandbox, handlerInstalled,
                   alarm, attempt, sandbox_ready, result, pending, testRet,
                   execRet, probeZero, createCalls, getCalls, probes,
                   submitted, deleteCalls, abandoned, raw, display, used,
                   lastGetOk, sleeps>>

\* test(description, command) is entered: prints description and command.
TestBegin ==
    /\ pc = "test_begin"
    /\ testRet' = Unset
    /\ execRet' = Unset
    /\ out' = "test_header"
    /\ raw' = None
    /\ display' = <<>>
    /\ pc' = "test_arm"
    /\ abandoned' = "none"
    /\ UNCHANGED <<apiKey, exitStatus, exc, sandbox, handlerInstalled,
                   alarm, attempt, sandbox_ready, result, pending, idx,
                   warned, probeZero, createCalls, getCalls, probes,
                   submitted, deleteCalls, used, lastGetOk, sleeps>>

\* signal.alarm(30)
TestArm ==
    /\ pc = "test_arm"
    /\ alarm' = TestTimeout
    /\ pc' = "test_call"
    /\ UNCHANGED <<apiKey, exitStatus, exc, sandbox, handlerInstalled,
                   attempt, sandbox_ready, result, pending, idx, testRet,
                   execRet, out, warned, probeZero, createCalls, getCalls,
                   probes, submitted, deleteCalls, abandoned, raw, display,
                   used, lastGetOk, sleeps>>

\* sandbox.process.exec(command, timeout=30) is called.
TestSubmit ==
    /\ pc = "test_call"
    /\ submitted' = Append(submitted, idx)
    /\ used' = used \cup {sandbox}
    /\ pending' \in {"completes", "blocks"}
    /\ pc' = "test_inflight"
    /\ UNCHANGED <<apiKey, exitStatus, exc, sandbox, handlerInstalled,
                   alarm, attempt, sandbox_ready, result, idx, testRet,
                   execRet, out, warned, probeZero, createCalls, getCalls,
                   probes, deleteCalls, abandoned, raw, display, lastGetOk,
                   sleeps>>

\* The scenario exec returns a result with exit code c, or raises.
TestComplete ==
    /\ pc = "test_inflight"
    /\ pending = "completes"
    /\ pending' = "none"
    /\ \/ \E c \in ExitCodes :
            /\ result' = c
            /\ execRet' = c
            /\ raw' \in MainOutputs
            /\ pc' = "test_disarm"
            /\ UNCHANGED exc
       \/ /\ Raise("Error")
          /\ UNCHANGED <<result, execRet, raw>>
    /\ UNCHANGED <<apiKey, exitStatus, sandbox, handlerInstalled, alarm,
                   attempt, sandbox_ready, idx, testRet, out, warned,
                   probeZero, createCalls, getCalls, probes, submitted,
                   deleteCalls, abandoned, display, used, lastGetOk, sleeps>>

\* signal.alarm(0) of line 96
TestDisarm ==
    /\ pc = "test_disarm"
    /\ alarm' = 0
    /\ pc' = "test_report"
    /\ UNCHANGED <<apiKey, exitStatus, exc, sandbox, handlerInstalled,
                   attempt, sandbox_ready, result, pending, idx, testRet,
                   execRet, out, warned, probeZero, createCalls, getCalls,
                   probes, submitted, deleteCalls, abandoned, raw, display,
                   used, lastGetOk, sleeps>>

\* output = normalized and truncated result.result; print output and exit
\* code; return result.exit_code
TestReport ==
    /\ pc = "test_report"
    /\ display' = Display(raw)
    /\ out' = "test_output"
    /\ testRet' = result
    /\ pc' = "test_next"
    /\ UNCHANGED <<apiKey, exitStatus, exc, sandbox, handlerInstalled,
                   alarm, attempt, sandbox_ready, result, pending, idx,
                   execRet, warned, probeZero, createCalls, getCalls,
                   probes, submitted, deleteCalls, abandoned, raw, used,
                   lastGetOk, sleeps>>

\* except TimeoutError: signal.alarm(0); print(...timed out...); return -1
TestTimeoutHandler ==
    /\ pc = "test_timeout"
    /\ alarm' = 0
    /\ out' = "test_timeout"
    /\ testRet' = Sentinel
    /\ pc' = "test_next"
    /\ UNCHANGED <<apiKey, exitStatus, exc, sandbox, handlerInstalled,
                   attempt, sandbox_ready, result, pending, idx, execRet,
                   warned, probeZero, createCalls, getCalls, probes,
                   submitted, deleteCalls, abandoned, raw, display, used,
                   lastGetOk, sleeps>>

\* Variant: the except Exception clause of test() omits signal.alarm(0).
TestErrorHandler_NoDisarm ==
    /\ pc = "test_except"
    /\ alarm' = alarm
    /\ out' = "test_error"
    /\ testRet' = Sentinel
    /\ pc' = "test_next"
    /\ UNCHANGED <<apiKey, exitStatus, exc, sandbox, handlerInstalled,
                   attempt, sandbox_ready, result, pending, idx, execRet,
                   warned, probeZero, createCalls, getCalls, probes,
                   submitted, deleteCalls, abandoned, raw, display, used,
                   lastGetOk, sleeps>>

\* except Exception as e: signal.alarm(0); print(f"Error: {e}"); return -1
TestErrorHandler ==
    /\ pc = "test_except"
    /\ alarm' = 0
    /\ out' = "test_error"
    /\ testRet' = Sentinel
    /\ pc' = "test_next"
    /\ UNCHANGED <<apiKey, exitStatus, exc, sandbox, handlerInstalled,
                   attempt, sandbox_ready, result, pending, idx, execRet,
                   warned, probeZero, createCalls, getCalls, probes,
                   submitted, deleteCalls, abandoned, raw, display, used,
                   lastGetOk, sleeps>>

\* test() has returned: main() goes on to the next test() call of the
\* list, or to the summary after the last one.
NextScenario ==
    /\ pc = "test_next"
    /\ IF idx < NumScenarios
       THEN /\ idx' = idx + 1
            /\ pc' = "test_begin"
       ELSE /\ pc' = "summary"
            /\ UNCHANGED idx
    /\ UNCHANGED <<apiKey, exitStatus, exc, sandbox, handlerInstalled,
                   alarm, attempt, sandbox_ready, result, pending, testRet,
                   execRet, out, warned, probeZero, createCalls, getCalls,
                   probes, submitted, deleteCalls, abandoned, raw, display,
                   used, lastGetOk, sleeps>>

\* The summary prints that end the try body.
Summary ==
    /\ pc = "summary"
    /\ out' = "summary"
    /\ pc' = "finally"
    /\ UNCHANGED <<apiKey, exitStatus, exc, sandbox, handlerInstalled,
                   alarm, attempt, sandbox_ready, result, pending, idx,
                   testRet, execRet, warned, probeZero, createCalls,
                   getCalls, probes, submitted, deleteCalls, abandoned, raw,
                   display, used, lastGetOk, sleeps>>

(* ------------------------------ cleanup ------------------------------- *)
\* Variant: a delete that raised is tried once more.
Cleanup_Retry ==
    /\ pc = "finally"
    /\ deleteCalls' = deleteCalls + 1
    /\ used' = used \cup {sandbox}
    /\ \/ /\ out' = "deleted"
          /\ pc' = IF exc = "none" THEN "done" ELSE "raised"
          /\ UNCHANGED exc
       \/ /\ out' = "cleanup"
          /\ exc' = IF deleteCalls < 1 THEN exc ELSE "Error"
          /\ pc' = IF deleteCalls < 1 THEN "finally" ELSE "raised"
    /\ UNCHANGED <<apiKey, exitStatus, sandbox, handlerInstalled, alarm,
                   attempt, sandbox_ready, result, pending, idx, testRet,
                   execRet, warned, probeZero, createCalls, getCalls,
                   probes, submitted, abandoned, raw, display, lastGetOk,
                   sleeps>>

\* finally: daytona.delete(sandbox); a pending exception is re-raised
\* after the clause, and delete itself may raise.
Cleanup ==
    /\ pc = "finally"
    /\ deleteCalls' = deleteCalls + 1
    /\ used' = used \cup {sandbox}
    /\ \/ /\ out' = "deleted"
          /\ pc' = IF exc = "none" THEN "done" ELSE "raised"
          /\ UNCHANGED exc
       \/ /\ out' = "cleanup"
          /\ exc' = "Error"
          /\ pc' = "raised"
    /\ UNCHANGED <<apiKey, exitStatus, sandbox, handlerInstalled, alarm,
                   attempt, sandbox_ready, result, pending, idx, testRet,
                   execRet, warned, probeZero, createCalls, getCalls,
                   probes, submitted, abandoned, raw, display, lastGetOk,
                   sleeps>>

Next ==
    \/ CheckApiKey
    \/ Create
    \/ InstallHandler
    \/ LoopHead
    \/ Sleep
    \/ Get
    \/ ProbeArm
    \/ ProbeSubmit
    \/ ProbeComplete
    \/ ProbeDisarm
    \/ ProbeCheck
    \/ ProbeTimeoutHandler
    \/ ProbeErrorHandler
    \/ Fire
    \/ CheckReady
    \/ TestBegin
    \/ TestArm
    \/ TestSubmit
    \/ TestComplete
    \/ TestDisarm
    \/ TestReport
    \/ TestTimeoutHandler
    \/ TestErrorHandler
    \/ NextScenario
    \/ Summary
    \/ Cleanup

Spec == Init /\ [][Next]_vars

\* The statements of main() run one after the other, and an armed alarm
\* expires: no step that can be taken is postponed forever.
FairSpec == Spec /\ WF_vars(Next)

(* ------------------- formatting of a captured output ------------------ *)
\* The captured outputs tried: n characters of text cycling through
\* "b", "c", " ", "a" (so that text has inner and, for some n, trailing
\* whitespace), between lead and trail whitespace characters.
Letter(k) == <<"a", "b", "c", " ">>[(k % 4) + 1]
Body(n) == [k \in 1 .. n |-> Letter(k)]
Pad(n) == [k \in 1 .. n |-> IF k % 2 = 1 THEN " " ELSE "\n"]
Text(lead, n, trail) == Pad(lead) \o Body(n) \o Pad(trail)
Inputs ==
    {None} \cup {Text(lead, n, trail) :
                    lead \in 0 .. MaxPad, n \in 0 .. MaxBody, trail \in 0 .. MaxPad}

\* test() of the first scenario after a first probe that succeeded: the
\* exec has returned exit code result and any of the outputs above, and
\* line 96 has disarmed the alarm.
FmtInit ==
    /\ pc = "test_report"
    /\ apiKey = "present"
    /\ exitStatus = Unset
    /\ exc = "none"
    /\ sandbox = RefreshedHandle(1)
    /\ handlerInstalled = TRUE
    /\ alarm = 0
    /\ attempt = 1
    /\ sandbox_ready = TRUE
    /\ result \in ExitCodes
    /\ pending = "none"
    /\ idx = 1
    /\ testRet = Unset
    /\ execRet = result
    /\ out = "test_header"
    /\ warned = FALSE
    /\ probeZero = TRUE
    /\ createCalls = 1
    /\ getCalls = 1
    /\ probes = 1
    /\ submitted = <<1>>
    /\ deleteCalls = 0
    /\ abandoned = "none"
    /\ raw \in Inputs
    /\ display = <<>>
    /\ used = {RefreshedHandle(1)}
    /\ lastGetOk = 1
    /\ sleeps = 1

FmtNext == TestReport

FmtSpec == FmtInit /\ [][FmtNext]_vars

(* ============================== claims ================================ *)
AllScenarios == [k \in 1 .. NumScenarios |-> k]
Results == ExitCodes \cup {Sentinel}
Polling == {"sleep", "get", "probe_arm", "probe_call", "probe_inflight"}
AfterLoop == {"check_ready", "test_begin", "test_arm", "test_call",
              "test_inflight", "test_disarm", "test_report", "test_timeout",
              "test_except", "test_next", "summary", "finally", "done"}

\* C1: once daytona.create has returned a sandbox, however main() ends,
\* daytona.delete has been invoked exactly once: never twice, and not zero
\* times when main() is over.
C1_DeleteExactlyOnce ==
    /\ deleteCalls <= 1
    /\ (pc \in {"done", "raised"} /\ sandbox # 0) => deleteCalls = 1

\* C2: when cleanup begins, every scenario of the list has been submitted
\* to the remote exec exactly once and in list order, whatever the outcome
\* of each test() call and wherever the armed alarm fired.
C2_EveryScenarioSubmitted ==
    /\ \A k \in DOMAIN submitted : submitted[k] = k
    /\ pc = "finally" => submitted = AllScenarios

\* C3: every test() call hands exactly one result back to main(), the exit
\* code of the exec or the sentinel -1; control never leaves test() without
\* one (no exception escapes it).
C3_TestReturnsOneResult ==
    pc \in {"test_next", "finally"} => testRet \in Results

\* C4: once a probe exec has returned exit code 0, polling halts: no further
\* sleep, get or probe follows, sandbox_ready is true after the loop, and
\* the number of probes issued is the index of that attempt, at most
\* max_retries.
C4_FirstSuccessHaltsPolling ==
    /\ probes <= max_retries
    /\ probeZero => pc \notin Polling
    /\ (probeZero /\ pc \in AfterLoop) => (sandbox_ready /\ probes = attempt)

\* C5: a probe that timed out or raised is logged and the loop continues
\* with the next attempt: from either except clause of the readiness loop
\* control goes back to the loop head, wherever the alarm fires.
C5_ProbeFailureContinues ==
    [][(pc \in {"probe_timeout", "probe_except"}) => (pc' = "loop")]_vars

\* C6: when the readiness loop ends without a probe having returned exit
\* code 0, sandbox_ready is false, the warning is printed, and the run goes
\* on through the full scenario sequence to the cleanup without raising.
C6_ExhaustionIsSoft ==
    /\ (pc \in AfterLoop /\ pc # "check_ready" /\ ~sandbox_ready) => warned
    /\ (attempt = max_retries /\ ~probeZero /\ pc \in {"finally", "done", "raised"})
          => (warned /\ submitted = AllScenarios)
    /\ (attempt = max_retries /\ ~probeZero /\ pc \in {"done", "raised"})
          => deleteCalls = 1

\* C7: when the exec of a scenario returned normally with exit code c,
\* test() returns c and prints the output, never the timeout sentinel.
C7_ReturnedExecRecorded ==
    (pc = "test_next" /\ execRet # Unset)
       => (testRet = execRet /\ out = "test_output")

\* C8: a scenario exec that blocks does not hang the run: the alarm fires,
\* test() prints the timeout message and returns -1, and main() reaches the
\* next scenario (or the summary after the last one).
C8_BlockedExecTimesOut ==
    \A k \in 1 .. NumScenarios :
       (pc = "test_inflight" /\ pending = "blocks" /\ idx = k)
          ~> /\ testRet = Sentinel
             /\ out = "test_timeout"
             /\ \/ pc = "test_begin" /\ idx = k + 1
                \/ pc = "summary" /\ k = NumScenarios

\* C8 witness: test() has returned -1 for an exec that was blocked when the
\* alarm fired.
C8_Witness ==
    /\ pc = "test_next"
    /\ abandoned = "blocks"
    /\ testRet = Sentinel
    /\ out = "test_timeout"

\* C9: no deadline is armed outside a guarded call: at the sleep, at
\* daytona.get, between two scenarios, in the summary and at daytona.delete
\* (and at every other statement that is not between an arm and its
\* disarm) the alarm is not armed.
C9_NoStaleDeadline ==
    pc \in {"loop", "sleep", "get", "probe_arm", "probe_check", "check_ready",
            "test_begin", "test_arm", "test_report", "test_next", "summary",
            "finally", "done", "raised"}
       => alarm = 0

\* C9 witness: control is between two scenarios after a test() call whose
\* exec raised while the alarm was armed.
C9_Witness ==
    /\ pc = "test_next"
    /\ out = "test_error"
    /\ idx < NumScenarios
    /\ alarm = 0

\* C10: with DAYTONA_API_KEY absent or empty main() exits with status 1 and
\* nothing else happens: no create, get, exec or delete, no handler
\* installed, no alarm armed.
C10_MissingKeyExitsFirst ==
    apiKey \in {"absent", "empty"} =>
       /\ pc \in {"start", "exited"}
       /\ pc = "exited" => exitStatus = 1
       /\ createCalls = 0 /\ getCalls = 0 /\ probes = 0
       /\ submitted = <<>> /\ deleteCalls = 0
       /\ ~handlerInstalled /\ alarm = 0

\* C10 witness: main() has exited with status 1 on an empty key.
C10_Witness ==
    pc = "exited" /\ apiKey = "empty" /\ exitStatus = 1

\* C11: a normalized output longer than 150 characters is displayed as its
\* first 150 characters followed by "..." (153 characters); one of at most
\* 150 characters, exactly 150 included, is displayed unchanged.
C11_TruncationAt150 ==
    (pc = "test_next" /\ out = "test_output") =>
       LET n == Normalize(raw)
       IN  IF Len(n) > 150
           THEN /\ Len(display) = 153
                /\ SubSeq(display, 1, 150) = SubSeq(n, 1, 150)
                /\ SubSeq(display, 151, 153) = <<".", ".", ".">>
           ELSE display = n

\* C11 witness: test() has printed an output whose normalized form is
\* longer than 150 characters.
C11_Witness ==
    /\ pc = "test_next"
    /\ out = "test_output"
    /\ Len(Normalize(raw)) > 150
    /\ Len(display) = 153

\* C12: once daytona.delete has been invoked, no daytona.get, no exec and
\* no further delete is performed in the rest of the run.
C12_DeletedHandleNeverReused ==
    [][(deleteCalls >= 1) =>
          /\ getCalls' = getCalls
          /\ probes' = probes
          /\ submitted' = submitted
          /\ used' = used
          /\ deleteCalls' = deleteCalls]_vars

\* C12 witness: main() is over after its scenarios and one delete.
C12_Witness ==
    /\ pc = "done"
    /\ deleteCalls = 1
    /\ submitted = AllScenarios

\* C13: every signal.alarm(n) with n > 0 (line 68 with 5, line 94 with 30)
\* is made while no alarm is armed and no exec is in flight.
C13_OneDeadlineAtATime ==
    [][((pc \in {"probe_arm", "test_arm"} /\ alarm' > 0)
          \/ (alarm' > 0 /\ alarm' # alarm))
          => (alarm = 0 /\ pending = "none")]_vars

\* C13 witness: the deadline of the second scenario has just been armed,
\* after the deadlines of the probes and of the first scenario.
C13_Witness ==
    /\ pc = "test_call"
    /\ idx = 2
    /\ alarm = 30
    /\ probes >= 1

\* C14: for every captured output whose trimmed form is empty (None, the
\* empty string, whitespace only) test() prints "(no output)".
C14_BlankOutputPlaceholder ==
    (/\ pc = "test_next"
     /\ out = "test_output"
     /\ (raw = None \/ \A k \in DOMAIN raw : raw[k] \in Whitespace))
       => display = Placeholder

\* C15: sandbox is bound by daytona.create and changed only by a
\* daytona.get that returns; a get that raises and the scenario runner
\* leave it alone, so every scenario exec and the delete use one handle:
\* that of the last get that returned, or the created one if none did.
C15_HandleOnlyRefreshedByGet ==
    /\ [](used \subseteq {IF lastGetOk = 0 THEN CreatedHandle
                                          ELSE RefreshedHandle(lastGetOk)})
    /\ [][(sandbox' # sandbox) =>
             (pc = "create" \/ (pc = "get" /\ lastGetOk' = attempt))]_vars

\* C15 witness: the run is over, its scenarios and the delete used the
\* handle of a get that was followed by gets that raised.
C15_Witness ==
    /\ pc = "done"
    /\ submitted = AllScenarios
    /\ lastGetOk >= 1
    /\ getCalls > lastGetOk
    /\ used = {RefreshedHandle(lastGetOk)}

\* C16: no scenario is submitted before the poller has concluded (a probe
\* returned exit code 0 and set sandbox_ready, or all 10 attempts were
\* started); in each attempt the sleep precedes the get, the get that
\* returned precedes the arming, the arming precedes the probe exec; create
\* precedes every get and exec, and no exec follows the delete.
C16_PhaseOrdering ==
    /\ [](/\ (submitted # <<>>) =>
               ((probeZero /\ sandbox_ready) \/ attempt = 10)
          /\ (getCalls > 0 \/ probes > 0 \/ submitted # <<>>) =>
               (createCalls = 1 /\ sandbox # 0))
    /\ [][/\ (sleeps' # sleeps) =>
               (sleeps = attempt - 1 /\ getCalls = attempt - 1)
          /\ (getCalls' # getCalls) =>
               (sleeps = attempt /\ getCalls = attempt - 1 /\ alarm = 0)
          /\ (pc = "probe_arm") =>
               (alarm' = 5 /\ lastGetOk = attempt /\ probes' = probes)
          /\ (probes' # probes) =>
               (alarm = 5 /\ lastGetOk = attempt /\ probes' = probes + 1)
          /\ (createCalls' # createCalls) =>
               (getCalls = 0 /\ probes = 0 /\ submitted = <<>>)
          /\ (deleteCalls > 0) =>
               (probes' = probes /\ submitted' = submitted)]_vars

\* C16 witness: the run is over: the poller concluded on a later attempt
\* than the first, then every scenario was submitted, then the delete.
C16_Witness ==
    /\ pc = "done"
    /\ sandbox_ready
    /\ attempt > 1
    /\ sleeps = attempt
    /\ submitted = AllScenarios
    /\ deleteCalls = 1

\* C17: after the readiness loop sandbox_ready is true exactly when some
\* probe exec returned exit code 0, and the not-ready warning is printed
\* exactly when none did; a probe that returned a non-zero exit code has its
\* alarm disarmed before the exit code is looked at.
C17_ReadyIffProbeReturnedZero ==
    /\ (pc \in AfterLoop) => (sandbox_ready <=> probeZero)
    /\ (pc \in AfterLoop \ {"check_ready"}) => (warned <=> ~probeZero)
    /\ (pc = "probe_check" /\ result # 0) => alarm = 0
====
